---- MODULE Spec2Model ----
(***************************************************************************)
(* Model of the autodb-agent document-intake pipeline:                     *)
(*   app/agents/document_processor.py  text_parsing_tool,                  *)
(*                                     image_analysis_tool,                *)
(*                                     DocumentProcessingAgent             *)
(*   app/routers/documents.py          upload_document                     *)
(*                                     get_document                        *)
(*                                                                         *)
(* Strings whose content the code inspects (strip, split, replace, slice)  *)
(* are modelled as texts: sequences of runs [k, n], n copies of a unit of  *)
(* kind k, in canonical form (no empty run, no two adjacent runs of the    *)
(* same kind):                                                             *)
(*   "w"  non-whitespace characters     "s"  whitespace characters         *)
(*   "f"  code-fence markers ```        "b"  bold markers **               *)
(* Python dicts are functions from a set of key strings.  An optional      *)
(* value (None or a value) is a sequence of length 0 or 1.                 *)
(***************************************************************************)
EXTENDS Integers, Sequences, FiniteSets, TLC

VARIABLES
  \* ---- one run of an extractor tool on its own (SpecTools)
  tl_pc,        \* "idle" | "ready" | "done"
  tl_tool,      \* the tool that is run
  tl_ct,        \* its content_type argument
  tl_env,       \* what the outside world answers during the run
  tl_out,       \* what the run returned, with the prompts it sent to the model
  \* ---- the upload_document handler
  pc,           \* position of the handler
  nreq,         \* upload requests received so far
  req,          \* the request: filename, content_type
  storage_key,  \* key generated for the request (0: none yet)
  storage_url,  \* URL returned by the storage upload, optional
  bucket,       \* keys of the objects held by the object storage
  tools,        \* response.tools: the agent's tool executions, in order
  reply,        \* how agent.run ended
  outcome,      \* what process_document_metadata returned (or that it raised)
  document,     \* the DocumentModel built by the handler
  docs,         \* the documents collection
  http,         \* status of the response to the request (0: none yet)
  \* ---- upload_document handlers running at the same time (SpecConc)
  cc,           \* per request: the locals of its handler
  agents,       \* per DocumentProcessingAgent: the state of its run
  \* ---- the get_document handler (SpecGet)
  lookup        \* its position, the requested id, what find_one gave, the answer

toolVars == <<tl_pc, tl_tool, tl_ct, tl_env, tl_out>>
uploadVars == <<pc, nreq, req, storage_key, storage_url, bucket, tools, reply,
                outcome, document, docs, http>>
concVars == <<cc, agents>>
vars == <<tl_pc, tl_tool, tl_ct, tl_env, tl_out, pc, nreq, req, storage_key,
          storage_url, bucket, tools, reply, outcome, document, docs, http,
          cc, agents, lookup>>

----------------------------------------------------------------------------
(* Optional values and dicts *)

None == <<>>

Some(v) == <<v>>

EmptyDict == [k \in {} |-> TRUE]

\* dict.update(other)
Update(d, other) ==
  [k \in DOMAIN d \cup DOMAIN other |-> IF k \in DOMAIN other THEN other[k] ELSE d[k]]

\* {key: value for key, value in d.items() if key in keys}
Restrict(d, keys) == [k \in DOMAIN d \cap keys |-> d[k]]

----------------------------------------------------------------------------
(* Texts *)

Run(kind, n) == [k |-> kind, n |-> n]

\* characters of one unit of a run
UnitLen(kind) == CASE kind = "f" -> 3 [] kind = "b" -> 2 [] OTHER -> 1

RECURSIVE Normalize(_)
Normalize(t) ==
  IF t = <<>> THEN <<>>
  ELSE LET h == Head(t)
           r == Normalize(Tail(t))
       IN  IF h.n = 0 THEN r
           ELSE IF r # <<>> /\ Head(r).k = h.k
                THEN <<Run(h.k, h.n + Head(r).n)>> \o Tail(r)
                ELSE <<h>> \o r

Concat(a, b) == Normalize(a \o b)

RECURSIVE TextLen(_)
TextLen(t) ==
  IF t = <<>> THEN 0 ELSE Head(t).n * UnitLen(Head(t).k) + TextLen(Tail(t))

\* str.strip()
Strip(t) ==
  LET l == IF t # <<>> /\ Head(t).k = "s" THEN Tail(t) ELSE t
  IN  IF l # <<>> /\ l[Len(l)].k = "s" THEN SubSeq(l, 1, Len(l) - 1) ELSE l

\* len(str.split()): the maximal runs of non-whitespace
WordCount(t) ==
  Cardinality({i \in 1..Len(t) : t[i].k # "s" /\ (i = 1 \/ t[i - 1].k = "s")})

\* the first c characters of one run; a marker cut in the middle leaves plain
\* non-whitespace characters
CutRun(r, c) ==
  IF r.k \in {"w", "s"} THEN <<Run(r.k, c)>>
  ELSE <<Run(r.k, c \div UnitLen(r.k)), Run("w", c % UnitLen(r.k))>>

RECURSIVE Slice(_, _)
Slice(t, c) ==
  IF t = <<>> \/ c = 0 THEN <<>>
  ELSE LET h == Head(t)
           hl == h.n * UnitLen(h.k)
       IN  IF hl <= c THEN <<h>> \o Slice(Tail(t), c - hl) ELSE CutRun(h, c)

\* s[:c]
Prefix(t, c) == Normalize(Slice(t, c))

\* s.replace('```', '').replace('**', '')
RemoveMarkers(t) == Normalize(SelectSeq(t, LAMBDA r : r.k \notin {"f", "b"}))

\* "\n".join(parts)
RECURSIVE JoinLines(_)
JoinLines(parts) ==
  IF parts = <<>> THEN <<>>
  ELSE IF Len(parts) = 1 THEN parts[1]
  ELSE Concat(Concat(parts[1], <<Run("s", 1)>>), JoinLines(Tail(parts)))

\* n words of wl characters each, separated by single blanks
RECURSIVE Words(_, _)
Words(n, wl) ==
  IF n = 0 THEN <<>>
  ELSE IF n = 1 THEN <<Run("w", wl)>>
  ELSE <<Run("w", wl), Run("s", 1)>> \o Words(n - 1, wl)

\* "Unsupported text format"
UnsupportedText == <<Run("w", 11), Run("s", 1), Run("w", 4), Run("s", 1), Run("w", 6)>>

\* "No meaningful text content found"
NoTextFound ==
  <<Run("w", 2), Run("s", 1), Run("w", 10), Run("s", 1), Run("w", 4), Run("s", 1),
    Run("w", 7), Run("s", 1), Run("w", 5)>>

----------------------------------------------------------------------------
(* The extractor tools *)

\* the content type whose name contains "wordprocessingml"
DocxType == "application/vnd.openxmlformats-officedocument.wordprocessingml.document"

\* if word_count > 5
WordThreshold == 5

\* raw_text[:1000], extracted_text[:1000]
ContentLimit == 1000

\* raw_text[:4000]
PromptLimit == 4000

\* the except branch of a tool: error_result
ErrorResult(e, ct, method) ==
  [success |-> FALSE, error |-> e, content_type |-> ct, processing_method |-> method]

\* content types whose bytes are parsed by a library that raises on a corrupt file
ParsedTypes == {"application/pdf", DocxType}

\* raw_text before cleaning.  env.body holds the document's lines, pages or
\* paragraphs in order.
RawText(ct, env) ==
  IF ct \in {"text/plain", "application/pdf", "text/csv", DocxType}
  THEN JoinLines(env.body)
  ELSE UnsupportedText

\* the model's reply as the tools clean it: strip, drop the markers, strip
CleanReply(t) == Strip(RemoveMarkers(Strip(t)))

\* the else branch: short or empty text is used as it is
ShortText(raw) == IF raw # <<>> THEN Prefix(raw, ContentLimit) ELSE NoTextFound

TextResult(extracted, wc, ct) ==
  [success |-> TRUE, extracted_text |-> Prefix(extracted, ContentLimit),
   word_count |-> wc, content_type |-> ct,
   processing_method |-> "ai_text_summarization"]

\* the summarizing branch: one run of the TextSummarizer agent on the first
\* 4000 characters, its reply cleaned.  env.summ is how the run ends: "raise",
\* "none" (a response without content) or "text".
SummaryResult(raw, wc, ct, env) ==
  LET method == "ai_text_summarization"
      sent == <<Prefix(raw, PromptLimit)>>
  IN  CASE env.summ.kind = "raise" ->
             [result |-> ErrorResult("capability error", ct, method), prompts |-> sent]
        [] env.summ.kind = "none" ->
             [result |-> ErrorResult("no attribute strip", ct, method), prompts |-> sent]
        [] OTHER ->
             [result |-> TextResult(CleanReply(env.summ.text), wc, ct), prompts |-> sent]

\* the same tool with the threshold test off by one (>= for >)
text_parsing_tool_ge(ct, env) ==
  LET method == "ai_text_summarization" IN
  IF ~env.fetch_ok
  THEN [result |-> ErrorResult("transport error", ct, method), prompts |-> <<>>]
  ELSE IF ct \in ParsedTypes /\ ~env.parse_ok
  THEN [result |-> ErrorResult("parse error", ct, method), prompts |-> <<>>]
  ELSE
    LET raw == Strip(RawText(ct, env))
        wc == IF raw # <<>> THEN WordCount(raw) ELSE 0
    IN  IF wc >= WordThreshold
        THEN SummaryResult(raw, wc, ct, env)
        ELSE [result |-> TextResult(ShortText(raw), wc, ct), prompts |-> <<>>]

\* text_parsing_tool(file_url, content_type): the dict it returns and the
\* prompts it sent to the summarizer.  env: fetch_ok (the download succeeded),
\* parse_ok (the PDF or DOCX library read the bytes), body, summ.
text_parsing_tool(ct, env) ==
  LET method == "ai_text_summarization" IN
  IF ~env.fetch_ok
  THEN [result |-> ErrorResult("transport error", ct, method), prompts |-> <<>>]
  ELSE IF ct \in ParsedTypes /\ ~env.parse_ok
  THEN [result |-> ErrorResult("parse error", ct, method), prompts |-> <<>>]
  ELSE
    LET raw == Strip(RawText(ct, env))
        wc == IF raw # <<>> THEN WordCount(raw) ELSE 0
    IN  IF wc > WordThreshold
        THEN SummaryResult(raw, wc, ct, env)
        ELSE [result |-> TextResult(ShortText(raw), wc, ct), prompts |-> <<>>]

\* image_analysis_tool(file_url, content_type)
image_analysis_tool(ct, env) ==
  LET method == "ai_vision_analysis"
      sent == <<<<Run("w", 1)>>>>
  IN  CASE env.summ.kind = "raise" ->
             [result |-> ErrorResult("capability error", ct, method), prompts |-> sent]
        [] env.summ.kind = "none" ->
             [result |-> ErrorResult("no attribute strip", ct, method), prompts |-> sent]
        [] OTHER ->
             [result |-> [success |-> TRUE,
                          image_description |-> CleanReply(env.summ.text),
                          content_type |-> ct,
                          processing_method |-> method,
                          detected_objects |-> "Analysis completed",
                          scene_type |-> "Image analyzed"],
              prompts |-> sent]

RunTool(tool, ct, env) ==
  IF tool = "text_parsing_tool" THEN text_parsing_tool(ct, env)
  ELSE image_analysis_tool(ct, env)

----------------------------------------------------------------------------
(* Inputs of the tool runs *)

\* most words of a generated text
MaxWords == 6

\* characters of a long word
BigWord == 600

BaseTexts ==
  {Words(n, 1) : n \in 0..MaxWords}
    \cup {<<Run("s", 2)>>,
          <<Run("s", 1)>> \o Words(WordThreshold, 2) \o <<Run("s", 3)>>,
          Words(2, BigWord),
          Words(MaxWords, BigWord + 300)}

PartTexts == {<<>>, Words(1, 1), Words(3, 1)}

Bodies ==
  {<<>>} \cup {<<t>> : t \in BaseTexts} \cup {<<a, b>> : a \in PartTexts, b \in PartTexts}

ReplyTexts ==
  {<<>>,
   <<Run("s", 1)>>,
   Words(3, 4),
   <<Run("b", 1)>>,
   <<Run("f", 1), Run("s", 1)>> \o Words(2, 3) \o <<Run("s", 1), Run("f", 1)>>,
   <<Run("b", 1), Run("w", 3), Run("b", 1), Run("s", 1), Run("w", 2)>>,
   Words(2, BigWord)}

ModelOutcomes ==
  {[kind |-> "raise", text |-> <<>>], [kind |-> "none", text |-> <<>>]}
    \cup {[kind |-> "text", text |-> t] : t \in ReplyTexts}

ToolContentTypes == {"text/plain", "application/pdf", "text/csv", DocxType, "image/png"}

TextEnvs ==
  {[fetch_ok |-> f, parse_ok |-> p, body |-> b, summ |-> s] :
     f \in BOOLEAN, p \in BOOLEAN, b \in Bodies, s \in ModelOutcomes}

ImageEnvs ==
  {[fetch_ok |-> TRUE, parse_ok |-> TRUE, body |-> <<>>, summ |-> s] : s \in ModelOutcomes}

NoEnv == [fetch_ok |-> TRUE, parse_ok |-> TRUE, body |-> <<>>,
          summ |-> [kind |-> "raise", text |-> <<>>]]

NoOut == [result |-> EmptyDict, prompts |-> <<>>]

----------------------------------------------------------------------------
(* DocumentProcessingAgent.process_document_metadata *)

\* The agent's reply text is a sequence of tokens [t, d]: "prose" (text without
\* braces), "fence" (a ``` or ```json marker), "lbrace" and "rbrace" (a lone
\* brace), "obj" (the text of a JSON object, d the dict it decodes to).
Token(kind) == [t |-> kind, d |-> EmptyDict]

Obj(dict) == [t |-> "obj", d |-> dict]

NotFound == 0 - 1

\* response_text.replace('```json', '').replace('```', '').strip()
DropFences(text) == SelectSeq(text, LAMBDA x : x.t # "fence")

\* response_text.find('{'), counted in tokens from 0
FindOpen(text) ==
  LET hits == {i \in 1..Len(text) : text[i].t \in {"lbrace", "obj"}}
  IN  IF hits = {} THEN NotFound ELSE (CHOOSE i \in hits : \A j \in hits : i <= j) - 1

\* response_text.rfind('}'), counted in tokens from 0
RFindClose(text) ==
  LET hits == {i \in 1..Len(text) : text[i].t \in {"rbrace", "obj"}}
  IN  IF hits = {} THEN NotFound ELSE (CHOOSE i \in hits : \A j \in hits : i >= j) - 1

\* text[a:b]
TokenSlice(text, a, b) == SubSeq(text, a + 1, b)

Fallback(why) ==
  [should_process |-> FALSE, workflow_type |-> "skip_processing", reason |-> why]

\* lines 284-306: the decision read from the reply text
ParseDecision(content) ==
  LET response_text == DropFences(content)
      start_idx == FindOpen(response_text)
      end_idx == RFindClose(response_text) + 1
  IN  IF start_idx # NotFound /\ end_idx # NotFound
      THEN LET json_str == TokenSlice(response_text, start_idx, end_idx)
           IN  IF Len(json_str) = 1 /\ json_str[1].t = "obj"
               THEN json_str[1].d
               ELSE Fallback("Could not parse agent response")
      ELSE Fallback("No JSON found in response")

\* lines 309-324: the decodable results of the executions, merged in order.
\* An execution is [tool_name, ct, env, decodable, result]; a result that eval
\* cannot turn into a dict is skipped.
RECURSIVE MergeToolResults(_)
MergeToolResults(execs) ==
  IF execs = <<>> THEN EmptyDict
  ELSE LET n == Len(execs)
           before == MergeToolResults(SubSeq(execs, 1, n - 1))
       IN  IF execs[n].decodable THEN Update(before, execs[n].result) ELSE before

\* the body of the try block: [exc, val], exc when a statement raised
TryBody(rep, execs) ==
  IF rep.kind \in {"raise", "none"}
  THEN [exc |-> TRUE, val |-> EmptyDict]
  ELSE LET final_result == ParseDecision(rep.content)
           tool_results == MergeToolResults(execs)
       IN  [exc |-> FALSE,
            val |-> IF DOMAIN tool_results # {}
                    THEN Update(final_result, tool_results)
                    ELSE final_result]

\* the same method without its except clause
process_document_metadata_no_except(rep, execs) ==
  LET body == TryBody(rep, execs)
  IN  [raised |-> body.exc, value |-> body.val]

\* process_document_metadata: [raised, value]; raised when an exception leaves
\* the method
process_document_metadata(rep, execs) ==
  LET body == TryBody(rep, execs)
  IN  IF body.exc
      THEN [raised |-> FALSE, value |-> Fallback("Agent processing failed")]
      ELSE [raised |-> FALSE, value |-> body.val]

----------------------------------------------------------------------------
(* upload_document *)

TriggerKeys == {"extracted_text", "image_description", "success", "processing_method"}

ResultKeys ==
  {"success", "extracted_text", "image_description", "word_count",
   "processing_method", "error"}

DecisionKeys == {"should_process", "workflow_type", "reason"}

\* lines 57-73: the two fragments of the record
SplitWorkflow(ai_workflow) ==
  IF DOMAIN ai_workflow \cap TriggerKeys # {}
  THEN [ai_workflow |-> Restrict(ai_workflow, DecisionKeys),
        processing_results |-> Some(Restrict(ai_workflow, ResultKeys))]
  ELSE [ai_workflow |-> ai_workflow, processing_results |-> None]

\* file.content_type or "application/octet-stream"
EffectiveType(ct) == IF ct = "" THEN "application/octet-stream" ELSE ct

\* R2StorageService.get_file_url
UrlOf(key) == <<"endpoint", "bucket", key>>

\* lines 76-85
\* a record's _id: a bson ObjectId, or the str of one
ObjectId(hex) == [type |-> "ObjectId", hex |-> hex]

StrId(hex) == [type |-> "str", hex |-> hex]

\* - id: the _id made with the record (one per record, like the key, which
\*   stands for its digits), as model_dump writes it: PyObjectId's serializer
\*   turns it into a str
BuildDocument(r, key, url, ai_workflow) ==
  LET parts == SplitWorkflow(ai_workflow)
  IN  [id |-> StrId(key),
       filename |-> key,
       original_filename |-> r.filename,
       content_type |-> EffectiveType(r.content_type),
       storage_key |-> key,
       storage_url |-> url,
       ai_workflow |-> parts.ai_workflow,
       processing_results |-> parts.processing_results]

----------------------------------------------------------------------------
(* State of the handler before any request, and of the tool bench at rest *)

NoReq == [filename |-> "", content_type |-> ""]

NoReply == [kind |-> "pending", content |-> <<>>]

UploadIdle ==
  /\ pc = "idle"
  /\ nreq = 0
  /\ req = NoReq
  /\ storage_key = 0
  /\ storage_url = None
  /\ bucket = {}
  /\ tools = <<>>
  /\ reply = NoReply
  /\ outcome = None
  /\ document = None
  /\ docs = <<>>
  /\ http = 0

\* the upload requests that are handled at the same time
Requests == {1, 2}

\* a handler that has not been entered
NoHandler ==
  [pc |-> "idle", req |-> NoReq, storage_key |-> 0, storage_url |-> None,
   agent |-> 0, ext_tools |-> <<>>, ext_reply |-> NoReply, outcome |-> None,
   document |-> None, http |-> 0]

\* an agent that has not run
NoRun == [tools |-> <<>>, reply |-> NoReply]

ConcIdle ==
  /\ cc = [r \in Requests |-> NoHandler]
  /\ agents = [a \in Requests |-> NoRun]

\* no get_document request yet
NoLookup ==
  [pc |-> "idle", document_id |-> [well_formed |-> FALSE, hex |-> 0], exc |-> "",
   found |-> None, http |-> 0, detail |-> ""]

GetIdle == lookup = NoLookup

ToolsIdle ==
  /\ tl_pc = "idle"
  /\ tl_tool = "text_parsing_tool"
  /\ tl_ct = "text/plain"
  /\ tl_env = NoEnv
  /\ tl_out = NoOut

----------------------------------------------------------------------------
(* SpecTools: one run of an extractor tool, over every input of the bench *)

InitTools ==
  /\ UploadIdle
  /\ ConcIdle
  /\ GetIdle
  /\ tl_pc = "ready"
  /\ tl_out = NoOut
  /\ tl_ct \in ToolContentTypes
  /\ \/ tl_tool = "text_parsing_tool" /\ tl_env \in TextEnvs
     \/ tl_tool = "image_analysis_tool" /\ tl_env \in ImageEnvs

RunTextTool ==
  /\ tl_pc = "ready"
  /\ tl_tool = "text_parsing_tool"
  /\ tl_out' = text_parsing_tool(tl_ct, tl_env)
  /\ tl_pc' = "done"
  /\ UNCHANGED <<tl_tool, tl_ct, tl_env>>
  /\ UNCHANGED uploadVars
  /\ UNCHANGED lookup
  /\ UNCHANGED concVars

RunImageTool ==
  /\ tl_pc = "ready"
  /\ tl_tool = "image_analysis_tool"
  /\ tl_out' = image_analysis_tool(tl_ct, tl_env)
  /\ tl_pc' = "done"
  /\ UNCHANGED <<tl_tool, tl_ct, tl_env>>
  /\ UNCHANGED uploadVars
  /\ UNCHANGED lookup
  /\ UNCHANGED concVars

NextTools == RunTextTool \/ RunImageTool

SpecTools == InitTools /\ [][NextTools]_vars

----------------------------------------------------------------------------
(* Inputs of the upload handler *)

\* most tool executions in one run of the agent
MaxToolCalls == 2

\* PROCESSING RULES BY CONTENT TYPE, as the system prompt states them
TextTypes == {"text/plain", "application/pdf", "text/csv", DocxType}

ImageTypes == {"image/png", "image/jpeg"}

SkipTypes == {"audio/mpeg", "video/mp4", "video/webm"}

RuleTableTypes == TextTypes \cup ImageTypes \cup SkipTypes

\* content types of the uploads; "" is a request without one
UploadTypes == {"text/plain", "application/pdf", "image/png", "audio/mpeg", ""}

Filenames == {"", "report"}

Workflows == {"text_processing", "image_processing", "skip_processing"}

Decision(sp, wt) == [should_process |-> sp, workflow_type |-> wt, reason |-> wt]

Decisions == {Decision(sp, wt) : sp \in BOOLEAN, wt \in Workflows}

\* keys a reply may carry besides the decision
ExtraKeys == {EmptyDict, [error |-> "unsupported"], [success |-> TRUE]}

ReplyDicts ==
  {Update(d, x) : d \in Decisions, x \in ExtraKeys}
    \cup {EmptyDict, [workflow_type |-> "text_processing"]}

TextReply(content) == [kind |-> "text", content |-> content]

\* replies that carry one JSON object: bare, in a code block, inside prose
JsonReplies ==
  {TextReply(<<Obj(d)>>) : d \in ReplyDicts}
    \cup {TextReply(<<Token("fence"), Obj(d), Token("fence")>>) : d \in Decisions}
    \cup {TextReply(<<Token("prose"), Obj(d), Token("prose")>>) : d \in Decisions}

\* replies that carry none: the run raises, the response has no content, the
\* text has no brace, or the text between the braces does not decode
FaultReplies ==
  {[kind |-> "raise", content |-> <<>>],
   [kind |-> "none", content |-> <<>>],
   TextReply(<<>>),
   TextReply(<<Token("prose")>>),
   TextReply(<<Token("rbrace")>>),
   TextReply(<<Token("lbrace"), Token("prose")>>),
   TextReply(<<Token("rbrace"), Token("prose"), Token("lbrace")>>),
   TextReply(<<Obj(Decision(TRUE, "text_processing")), Token("prose"),
               Obj(Decision(TRUE, "text_processing"))>>)}

Replies == JsonReplies \cup FaultReplies

OkModel == [kind |-> "text", text |-> Words(3, 4)]

TextEnv(f, p, b, s) == [fetch_ok |-> f, parse_ok |-> p, body |-> b, summ |-> s]

\* what the text tool may meet during an upload
UploadTextEnvs ==
  {TextEnv(FALSE, TRUE, <<>>, OkModel),
   TextEnv(TRUE, FALSE, <<Words(2, 5)>>, OkModel),
   TextEnv(TRUE, TRUE, <<Words(2, 5)>>, OkModel),
   TextEnv(TRUE, TRUE, <<Words(MaxWords, 1)>>, OkModel),
   TextEnv(TRUE, TRUE, <<Words(MaxWords, 1)>>, [kind |-> "text", text |-> <<>>])}

\* what the image tool may meet during an upload
UploadImageEnvs ==
  {TextEnv(TRUE, TRUE, <<>>, s) :
     s \in {OkModel, [kind |-> "raise", text |-> <<>>], [kind |-> "text", text |-> <<>>]}}

ToolNames == {"text_parsing_tool", "image_analysis_tool"}

\* one entry of response.tools
Execution(tool, ct, env, decodable) ==
  [tool_name |-> tool, ct |-> ct, env |-> env, decodable |-> decodable,
   result |-> IF decodable THEN RunTool(tool, ct, env).result ELSE EmptyDict]

----------------------------------------------------------------------------
(* The steps of upload_document *)

\* the request arrives; without a filename it is refused
Receive(types) ==
  /\ pc = "idle"
  /\ \E f \in Filenames, ct \in types :
       /\ req' = [filename |-> f, content_type |-> ct]
       /\ IF f = ""
          THEN /\ http' = 400
               /\ pc' = "responded"
               /\ storage_key' = storage_key
          ELSE /\ http' = http
               /\ pc' = "storing"
               /\ storage_key' = nreq + 1
  /\ nreq' = nreq + 1
  /\ UNCHANGED <<storage_url, bucket, tools, reply, outcome, document, docs>>
  /\ UNCHANGED toolVars
  /\ UNCHANGED lookup
  /\ UNCHANGED concVars

\* storage_service.upload_file returns the URL
StoreOk ==
  /\ pc = "storing"
  /\ bucket' = bucket \cup {storage_key}
  /\ storage_url' = Some(UrlOf(storage_key))
  /\ pc' = "agent"
  /\ UNCHANGED <<nreq, req, storage_key, tools, reply, outcome, document, docs, http>>
  /\ UNCHANGED toolVars
  /\ UNCHANGED lookup
  /\ UNCHANGED concVars

\* storage_service.upload_file raises
StoreFail ==
  /\ pc = "storing"
  /\ http' = 500
  /\ pc' = "responded"
  /\ UNCHANGED <<nreq, req, storage_key, storage_url, bucket, tools, reply, outcome,
                 document, docs>>
  /\ UNCHANGED toolVars
  /\ UNCHANGED lookup
  /\ UNCHANGED concVars

\* agent.run: the model has a tool executed; the stored result is the tool's
\* dict, or something eval cannot turn into a dict
AgentToolCall(textEnvs, imageEnvs, maxCalls) ==
  /\ pc = "agent"
  /\ Len(tools) < maxCalls
  /\ \E tool \in ToolNames :
       LET ct == EffectiveType(req.content_type) IN
       \/ \E env \in IF tool = "text_parsing_tool" THEN textEnvs ELSE imageEnvs :
            tools' = Append(tools, Execution(tool, ct, env, TRUE))
       \/ tools' = Append(tools, Execution(tool, ct, NoEnv, FALSE))
  /\ UNCHANGED <<pc, nreq, req, storage_key, storage_url, bucket, reply, outcome,
                 document, docs, http>>
  /\ UNCHANGED toolVars
  /\ UNCHANGED lookup
  /\ UNCHANGED concVars

\* agent.run ends: it raises or returns a response
AgentReturn(replies) ==
  /\ pc = "agent"
  /\ reply' \in replies
  /\ pc' = "replied"
  /\ UNCHANGED <<nreq, req, storage_key, storage_url, bucket, tools, outcome, document,
                 docs, http>>
  /\ UNCHANGED toolVars
  /\ UNCHANGED lookup
  /\ UNCHANGED concVars

\* the rest of process_document_metadata
ProcessReply ==
  /\ pc = "replied"
  /\ outcome' = Some(process_document_metadata(reply, tools))
  /\ pc' = "processed"
  /\ UNCHANGED <<nreq, req, storage_key, storage_url, bucket, tools, reply, document,
                 docs, http>>
  /\ UNCHANGED toolVars
  /\ UNCHANGED lookup
  /\ UNCHANGED concVars

\* the record is built from the returned workflow; an exception out of the
\* pipeline ends the request with 500
Build ==
  /\ pc = "processed"
  /\ IF outcome[1].raised
     THEN /\ http' = 500
          /\ pc' = "responded"
          /\ document' = document
     ELSE /\ document' = Some(BuildDocument(req, storage_key, storage_url[1],
                                            outcome[1].value))
          /\ pc' = "built"
          /\ http' = http
  /\ UNCHANGED <<nreq, req, storage_key, storage_url, bucket, tools, reply, outcome, docs>>
  /\ UNCHANGED toolVars
  /\ UNCHANGED lookup
  /\ UNCHANGED concVars

\* db.documents.insert_one returns
InsertOk ==
  /\ pc = "built"
  /\ docs' = Append(docs, document[1])
  /\ http' = 200
  /\ pc' = "responded"
  /\ UNCHANGED <<nreq, req, storage_key, storage_url, bucket, tools, reply, outcome,
                 document>>
  /\ UNCHANGED toolVars
  /\ UNCHANGED lookup
  /\ UNCHANGED concVars

\* db.documents.insert_one raises
InsertFail ==
  /\ pc = "built"
  /\ http' = 500
  /\ pc' = "responded"
  /\ UNCHANGED <<nreq, req, storage_key, storage_url, bucket, tools, reply, outcome,
                 document, docs>>
  /\ UNCHANGED toolVars
  /\ UNCHANGED lookup
  /\ UNCHANGED concVars

\* the response is sent; the handler's locals are gone
Finish ==
  /\ pc = "responded"
  /\ pc' = "idle"
  /\ req' = NoReq
  /\ storage_key' = 0
  /\ storage_url' = None
  /\ tools' = <<>>
  /\ reply' = NoReply
  /\ outcome' = None
  /\ document' = None
  /\ http' = 0
  /\ UNCHANGED <<nreq, bucket, docs>>
  /\ UNCHANGED toolVars
  /\ UNCHANGED lookup
  /\ UNCHANGED concVars

----------------------------------------------------------------------------
(* Spec: one upload request, from an empty collection *)

Init == UploadIdle /\ ToolsIdle /\ ConcIdle /\ GetIdle

ReceiveFirst == nreq = 0 /\ Receive(UploadTypes)

CallTool == AgentToolCall(UploadTextEnvs, UploadImageEnvs, MaxToolCalls)

Return == AgentReturn(Replies)

Next ==
  \/ ReceiveFirst
  \/ StoreOk
  \/ StoreFail
  \/ CallTool
  \/ Return
  \/ ProcessReply
  \/ Build
  \/ InsertOk
  \/ InsertFail
  \/ Finish

Spec == Init /\ [][Next]_vars

----------------------------------------------------------------------------
(* SpecPair: two upload requests, one after the other *)

\* upload requests of a behaviour of SpecPair
PairUploads == 2

\* most tool executions in one run of the agent, in SpecPair
PairToolCalls == 1

PairReplies ==
  {TextReply(<<Token("prose")>>),
   TextReply(<<Obj(Decision(TRUE, "text_processing"))>>),
   TextReply(<<Obj(Decision(TRUE, "image_processing"))>>),
   TextReply(<<Obj(Decision(FALSE, "skip_processing"))>>)}

PairTextEnvs == {TextEnv(TRUE, TRUE, <<Words(2, 5)>>, OkModel)}

PairImageEnvs == {TextEnv(TRUE, TRUE, <<>>, OkModel)}

ReceivePair == nreq < PairUploads /\ Receive(RuleTableTypes)

CallToolPair == AgentToolCall(PairTextEnvs, PairImageEnvs, PairToolCalls)

ReturnPair == AgentReturn(PairReplies)

NextPair ==
  \/ ReceivePair
  \/ StoreOk
  \/ StoreFail
  \/ CallToolPair
  \/ ReturnPair
  \/ ProcessReply
  \/ Build
  \/ InsertOk
  \/ InsertFail
  \/ Finish

SpecPair == Init /\ [][NextPair]_vars

----------------------------------------------------------------------------
(* SpecConc: two upload requests handled at the same time.  Each handler   *)
(* has its own locals (cc[r]); the object storage, the collection and the  *)
(* source of keys are shared; a handler runs the agent that                *)
(* get_document_processor gave it.                                         *)

ConcTypes == {"text/plain", "image/png"}

ConcReplies ==
  {TextReply(<<Obj(Decision(TRUE, "text_processing"))>>),
   TextReply(<<Token("prose")>>)}

\* a handler that swallows the failure of the storage upload and goes on
CStoreFailSwallowed(r) ==
  /\ cc[r].pc = "storing"
  /\ cc' = [cc EXCEPT ![r].storage_url = Some(UrlOf(cc[r].storage_key)),
                      ![r].pc = "agent"]
  /\ UNCHANGED <<agents, nreq, bucket, docs>>
  /\ UNCHANGED <<pc, req, storage_key, storage_url, tools, reply, outcome, document, http>>
  /\ UNCHANGED toolVars
  /\ UNCHANGED lookup

\* one DocumentProcessingAgent for every request
SingletonAgent(r) == 1

\* Depends(get_document_processor): a new DocumentProcessingAgent per request
AgentOf(r) == r

\* the request arrives, its dependencies are built, its key is generated
CReceive(r) ==
  /\ cc[r].pc = "idle"
  /\ \E ct \in ConcTypes :
       cc' = [cc EXCEPT ![r].req = [filename |-> "report", content_type |-> ct],
                        ![r].agent = AgentOf(r),
                        ![r].storage_key = nreq + 1,
                        ![r].pc = "storing"]
  /\ nreq' = nreq + 1
  /\ UNCHANGED <<agents, bucket, docs>>
  /\ UNCHANGED <<pc, req, storage_key, storage_url, tools, reply, outcome, document, http>>
  /\ UNCHANGED toolVars
  /\ UNCHANGED lookup

CStoreOk(r) ==
  /\ cc[r].pc = "storing"
  /\ bucket' = bucket \cup {cc[r].storage_key}
  /\ cc' = [cc EXCEPT ![r].storage_url = Some(UrlOf(cc[r].storage_key)),
                      ![r].pc = "agent"]
  /\ UNCHANGED <<agents, nreq, docs>>
  /\ UNCHANGED <<pc, req, storage_key, storage_url, tools, reply, outcome, document, http>>
  /\ UNCHANGED toolVars
  /\ UNCHANGED lookup

CStoreFail(r) ==
  /\ cc[r].pc = "storing"
  /\ cc' = [cc EXCEPT ![r].http = 500, ![r].pc = "responded"]
  /\ UNCHANGED <<agents, nreq, bucket, docs>>
  /\ UNCHANGED <<pc, req, storage_key, storage_url, tools, reply, outcome, document, http>>
  /\ UNCHANGED toolVars
  /\ UNCHANGED lookup

\* the run of the request's agent has a tool executed; ext_tools keeps what
\* the outside world answered to this request
CToolCall(r) ==
  /\ cc[r].pc = "agent"
  /\ Len(cc[r].ext_tools) < PairToolCalls
  /\ \E tool \in ToolNames :
       \E env \in IF tool = "text_parsing_tool" THEN PairTextEnvs ELSE PairImageEnvs :
         LET e == Execution(tool, EffectiveType(cc[r].req.content_type), env, TRUE) IN
         /\ agents' = [agents EXCEPT ![cc[r].agent].tools = Append(@, e)]
         /\ cc' = [cc EXCEPT ![r].ext_tools = Append(@, e)]
  /\ UNCHANGED <<nreq, bucket, docs>>
  /\ UNCHANGED <<pc, req, storage_key, storage_url, tools, reply, outcome, document, http>>
  /\ UNCHANGED toolVars
  /\ UNCHANGED lookup

\* the run of the request's agent ends with a reply
CAgentReturn(r) ==
  /\ cc[r].pc = "agent"
  /\ \E rep \in ConcReplies :
       /\ agents' = [agents EXCEPT ![cc[r].agent].reply = rep]
       /\ cc' = [cc EXCEPT ![r].ext_reply = rep, ![r].pc = "replied"]
  /\ UNCHANGED <<nreq, bucket, docs>>
  /\ UNCHANGED <<pc, req, storage_key, storage_url, tools, reply, outcome, document, http>>
  /\ UNCHANGED toolVars
  /\ UNCHANGED lookup

\* the rest of process_document_metadata, on the response of the request's agent
CProcessReply(r) ==
  /\ cc[r].pc = "replied"
  /\ LET run == agents[cc[r].agent] IN
     cc' = [cc EXCEPT ![r].outcome = Some(process_document_metadata(run.reply, run.tools)),
                      ![r].pc = "processed"]
  /\ UNCHANGED <<agents, nreq, bucket, docs>>
  /\ UNCHANGED <<pc, req, storage_key, storage_url, tools, reply, outcome, document, http>>
  /\ UNCHANGED toolVars
  /\ UNCHANGED lookup

CBuild(r) ==
  /\ cc[r].pc = "processed"
  /\ IF cc[r].outcome[1].raised
     THEN cc' = [cc EXCEPT ![r].http = 500, ![r].pc = "responded"]
     ELSE cc' = [cc EXCEPT ![r].document =
                             Some(BuildDocument(cc[r].req, cc[r].storage_key,
                                                cc[r].storage_url[1],
                                                cc[r].outcome[1].value)),
                           ![r].pc = "built"]
  /\ UNCHANGED <<agents, nreq, bucket, docs>>
  /\ UNCHANGED <<pc, req, storage_key, storage_url, tools, reply, outcome, document, http>>
  /\ UNCHANGED toolVars
  /\ UNCHANGED lookup

CInsertOk(r) ==
  /\ cc[r].pc = "built"
  /\ docs' = Append(docs, cc[r].document[1])
  /\ cc' = [cc EXCEPT ![r].http = 200, ![r].pc = "responded"]
  /\ UNCHANGED <<agents, nreq, bucket>>
  /\ UNCHANGED <<pc, req, storage_key, storage_url, tools, reply, outcome, document, http>>
  /\ UNCHANGED toolVars
  /\ UNCHANGED lookup

CInsertFail(r) ==
  /\ cc[r].pc = "built"
  /\ cc' = [cc EXCEPT ![r].http = 500, ![r].pc = "responded"]
  /\ UNCHANGED <<agents, nreq, bucket, docs>>
  /\ UNCHANGED <<pc, req, storage_key, storage_url, tools, reply, outcome, document, http>>
  /\ UNCHANGED toolVars
  /\ UNCHANGED lookup

NextConc ==
  \E r \in Requests :
    \/ CReceive(r)
    \/ CStoreOk(r)
    \/ CStoreFail(r)
    \/ CToolCall(r)
    \/ CAgentReturn(r)
    \/ CProcessReply(r)
    \/ CBuild(r)
    \/ CInsertOk(r)
    \/ CInsertFail(r)

SpecConc == Init /\ [][NextConc]_vars

----------------------------------------------------------------------------
(* get_document, and SpecGet: one get_document request on a collection     *)
(* that earlier writes have filled                                         *)

\* most records in the collection when the request arrives
GetStored == 2

\* a record of the collection: written by upload_document its _id is a str;
\* written by any other client of the database it is an ObjectId
StoredRecord(key, type) ==
  [BuildDocument([filename |-> "report", content_type |-> "text/plain"], key,
                 UrlOf(key), Decision(TRUE, "text_processing"))
     EXCEPT !.id = [type |-> type, hex |-> key]]

StoredRecords == {StoredRecord(k, t) : k \in 1..GetStored, t \in {"str", "ObjectId"}}

\* the collections of at most GetStored records, in the order of their keys
Collections ==
  {c \in UNION {[1..n -> StoredRecords] : n \in 0..GetStored} :
     \A i, j \in 1..Len(c) : i < j => c[i].storage_key < c[j].storage_key}

\* the document_id of the path: 24 hex digits (well formed) or anything else
DocumentIds ==
  {[well_formed |-> FALSE, hex |-> 0]}
    \cup {[well_formed |-> TRUE, hex |-> h] : h \in 1..(GetStored + 1)}

\* db.documents.find_one({"_id": oid}): the first record with that _id, or None
find_one(coll, oid) ==
  LET hits == {i \in 1..Len(coll) : coll[i].id = oid}
  IN  IF hits = {} THEN None
      ELSE Some(coll[CHOOSE i \in hits : \A j \in hits : i <= j])

\* the try block after find_one: the exception it raises ("" for none)
GetBody(l) ==
  IF l.exc # "" THEN l.exc
  ELSE IF l.found = None THEN "HTTPException 404 Document not found"
  ELSE IF l.found[1].id.type # "str" THEN "ValidationError"
  ELSE ""

\* get_document's answer: except Exception turns every exception of the
\* try block into 400
get_document(l) ==
  IF GetBody(l) # ""
  THEN [l EXCEPT !.pc = "answered", !.http = 400, !.detail = "Invalid document ID"]
  ELSE [l EXCEPT !.pc = "answered", !.http = 200]

InitGet ==
  /\ ToolsIdle /\ ConcIdle /\ GetIdle
  /\ pc = "idle" /\ req = NoReq /\ storage_key = 0 /\ storage_url = None
  /\ tools = <<>> /\ reply = NoReply /\ outcome = None /\ document = None /\ http = 0
  /\ docs \in Collections
  /\ bucket = {docs[i].storage_key : i \in 1..Len(docs)}
  /\ nreq = GetStored

\* the request arrives
GetReceive ==
  /\ lookup.pc = "idle"
  /\ \E id \in DocumentIds : lookup' = [lookup EXCEPT !.pc = "asked", !.document_id = id]
  /\ UNCHANGED <<uploadVars, toolVars, concVars>>

\* ObjectId(document_id) raises for a malformed id; otherwise find_one returns
GetFind ==
  /\ lookup.pc = "asked"
  /\ IF lookup.document_id.well_formed
     THEN lookup' = [lookup EXCEPT !.pc = "looked",
                                   !.found = find_one(docs, ObjectId(lookup.document_id.hex))]
     ELSE lookup' = [lookup EXCEPT !.pc = "looked", !.exc = "InvalidId"]
  /\ UNCHANGED <<uploadVars, toolVars, concVars>>

\* the lookup itself fails: no database handle, or find_one raises
GetFindFail ==
  /\ lookup.pc = "asked"
  /\ lookup.document_id.well_formed
  /\ lookup' = [lookup EXCEPT !.pc = "looked", !.exc = "PyMongoError"]
  /\ UNCHANGED <<uploadVars, toolVars, concVars>>

\* the rest of the handler
GetRespond ==
  /\ lookup.pc = "looked"
  /\ lookup' = get_document(lookup)
  /\ UNCHANGED <<uploadVars, toolVars, concVars>>

NextGet == GetReceive \/ GetFind \/ GetFindFail \/ GetRespond

SpecGet == InitGet /\ [][NextGet]_vars

----------------------------------------------------------------------------
(* Claims about the pipeline (Spec, SpecPair) *)

Has(d, k, v) == k \in DOMAIN d /\ d[k] = v

\* the reply carries no JSON object that decodes
NoDecision(rep) ==
  \/ rep.kind \in {"raise", "none"}
  \/ /\ rep.kind = "text"
     /\ LET body == SelectSeq(rep.content, LAMBDA x : x.t # "fence")
        IN  ~(\E i \in 1..Len(body) :
                /\ body[i].t = "obj"
                /\ \A j \in 1..Len(body) : j # i => body[j].t = "prose")

\* what the reason says for each fault
FaultReason(rep) ==
  IF rep.kind \in {"raise", "none"} THEN "Agent processing failed"
  ELSE IF \E i \in 1..Len(rep.content) : rep.content[i].t \in {"lbrace", "obj"}
       THEN "Could not parse agent response"
       ELSE "No JSON found in response"

\* C1: process_document_metadata never raises past its boundary, whatever the
\* agent run does (it raises, replies without JSON, replies with JSON that
\* does not decode, leaves tool results that cannot be decoded): it returns an
\* outcome, and when no decision was obtained the outcome is
\* should_process=false, workflow_type=skip_processing with a reason that
\* describes the fault.
C1_NeverRaises ==
  outcome # None =>
    /\ ~outcome[1].raised
    /\ NoDecision(reply) =>
         /\ Has(outcome[1].value, "should_process", FALSE)
         /\ Has(outcome[1].value, "workflow_type", "skip_processing")
         /\ Has(outcome[1].value, "reason", FaultReason(reply))

\* a reply whose braces hold nothing that decodes, after one tool result that
\* could not be decoded and one that could: the fallback decision is returned
\* with the tool's result merged in
C1_Witness ==
  /\ pc = "processed"
  /\ reply.kind = "text"
  /\ FaultReason(reply) = "Could not parse agent response"
  /\ Len(tools) = 2
  /\ ~tools[1].decodable
  /\ tools[2].decodable
  /\ Has(outcome[1].value, "success", FALSE)
  /\ Has(outcome[1].value, "should_process", FALSE)

\* C2: in every record built by upload_document, ai_workflow holds none of the
\* extraction keys (success, extracted_text, image_description, word_count,
\* processing_method, error) and processing_results none of the decision keys
\* (should_process, workflow_type, reason).
C2_FragmentsDisjoint ==
  document # None =>
    /\ DOMAIN document[1].ai_workflow \cap ResultKeys = {}
    /\ document[1].processing_results # None =>
         DOMAIN document[1].processing_results[1] \cap DecisionKeys = {}

\* some extractor actually ran during the invocation
ExtractorRan == \E i \in 1..Len(tools) : tools[i].decodable

\* C3: in every record built by upload_document, processing_results is
\* present only if the decision has should_process=true and an extractor tool
\* actually ran during that invocation.
C3_ResultsOnlyWhenProcessed ==
  (document # None /\ document[1].processing_results # None) =>
    /\ Has(document[1].ai_workflow, "should_process", TRUE)
    /\ ExtractorRan

\* C4: for every content type of the rule table, any two invocations with
\* that content type yield the same decision.
C4_SameTypeSameDecision ==
  \A i \in 1..Len(docs), j \in 1..Len(docs) :
    (docs[i].content_type = docs[j].content_type
       /\ docs[i].content_type \in RuleTableTypes) =>
      Restrict(docs[i].ai_workflow, DecisionKeys)
        = Restrict(docs[j].ai_workflow, DecisionKeys)

\* C5: for every content type outside the rule table and for the SKIP types,
\* the decision is should_process=false with workflow_type=skip_processing, no
\* extractor tool is run, and the record has no processing_results.
C5_SkipTypesAreSkipped ==
  (document # None /\ document[1].content_type \notin TextTypes \cup ImageTypes) =>
    /\ Has(document[1].ai_workflow, "should_process", FALSE)
    /\ Has(document[1].ai_workflow, "workflow_type", "skip_processing")
    /\ tools = <<>>
    /\ document[1].processing_results = None

\* the execution is a run of the text extractor in which the fetch failed or
\* the document could not be parsed
ExtractorFailed(e) ==
  /\ e.decodable
  /\ e.tool_name = "text_parsing_tool"
  /\ ~e.env.fetch_ok \/ (e.ct \in ParsedTypes /\ ~e.env.parse_ok)

\* C7: a failure inside an extractor is not fatal: the extractor returns
\* success=false with a populated error and no partial text, the pipeline
\* still returns an outcome, and the outcome has ai_workflow.should_process=
\* true and processing_results.success=false.
C7_ExtractorFailureReported ==
  \A i \in 1..Len(tools) :
    (ExtractorFailed(tools[i]) /\ pc \in {"built", "responded"}) =>
      /\ Has(tools[i].result, "success", FALSE)
      /\ "error" \in DOMAIN tools[i].result /\ tools[i].result.error # ""
      /\ "extracted_text" \notin DOMAIN tools[i].result
      /\ document # None
      /\ Has(document[1].ai_workflow, "should_process", TRUE)
      /\ document[1].processing_results # None
      /\ Has(document[1].processing_results[1], "success", FALSE)

\* C9: in every processing_results that reaches the persisted record,
\* success=false implies that no content field is present and that error is
\* populated, and success=true implies that error is absent.
C9_ResultsWellFormed ==
  \A i \in 1..Len(docs) :
    docs[i].processing_results # None =>
      LET pr == docs[i].processing_results[1] IN
      /\ Has(pr, "success", FALSE) =>
           /\ DOMAIN pr \cap {"extracted_text", "image_description"} = {}
           /\ "error" \in DOMAIN pr /\ pr.error # ""
      /\ Has(pr, "success", TRUE) => "error" \notin DOMAIN pr

ToolOf(workflow) ==
  IF workflow = "text_processing" THEN "text_parsing_tool" ELSE "image_analysis_tool"

MethodOf(workflow) ==
  IF workflow = "text_processing" THEN "ai_text_summarization" ELSE "ai_vision_analysis"

\* C10: in every outcome with extraction output (an extractor ran and the
\* record has processing_results), the extractor that ran is the one the
\* decision's workflow_type selects (text_processing with
\* ai_text_summarization, image_processing with ai_vision_analysis), and at
\* most one extractor ran in the invocation.
C10_ExtractorMatchesWorkflow ==
  (document # None /\ document[1].processing_results # None /\ ExtractorRan) =>
    /\ Len(tools) <= 1
    /\ \A wf \in {"text_processing", "image_processing"} :
         Has(document[1].ai_workflow, "workflow_type", wf) =>
           /\ Has(document[1].processing_results[1], "processing_method", MethodOf(wf))
           /\ \A i \in 1..Len(tools) : tools[i].tool_name = ToolOf(wf)

\* the decision of the run is known to the pipeline: agent.run has returned
\* the reply that carries it
DecisionFixed == reply.kind # "pending"

\* the decision has been reconciled with the extractor results
Reconciled == outcome # None

\* an extractor starts in this step
ExtractorStarts == Len(tools') > Len(tools)

\* C11: within one pipeline invocation the steps are ordered START,
\* CLASSIFIED, EXTRACTED or SKIPPED, RECONCILED: an extractor starts only
\* once the classification decision is fixed, no extractor starts after the
\* decision has been reconciled, and the reconciled outcome does not change
\* any more while the invocation lasts.
C11_StepsOrdered ==
  [][/\ ExtractorStarts => (DecisionFixed /\ ~Reconciled)
     /\ (Reconciled /\ pc' # "idle") => (outcome' = outcome /\ tools' = tools)]_vars

\* the two later parts of C11 on their own: nothing runs after RECONCILED
C11_ReconciledIsTerminal ==
  [][(Reconciled /\ pc' # "idle") => (outcome' = outcome /\ tools' = tools)]_vars

----------------------------------------------------------------------------
(* Claims about handlers running at the same time (SpecConc) *)

\* what process_document_metadata returns for the handler's upload when it
\* runs alone and the outside world answers as it answered this handler
AloneOutcome(h) == process_document_metadata(h.ext_reply, h.ext_tools)

\* the record of the handler's upload when it runs alone
AloneDocument(h) ==
  BuildDocument(h.req, h.storage_key, UrlOf(h.storage_key), AloneOutcome(h).value)

\* C12: two upload requests handled at the same time share no mutable
\* state: under every interleaving, what the pipeline returns for an upload
\* and the record (ai_workflow, processing_results) inserted for it are
\* those the upload gets alone with the same external responses, and every
\* record belongs to exactly one request.
C12_UploadsAreIsolated ==
  /\ \A r \in Requests :
       /\ cc[r].outcome # None => cc[r].outcome[1] = AloneOutcome(cc[r])
       /\ cc[r].document # None => cc[r].document[1] = AloneDocument(cc[r])
  /\ \A i \in 1..Len(docs) :
       \E r \in Requests :
         /\ cc[r].http = 200
         /\ docs[i] = AloneDocument(cc[r])
         /\ \A q \in Requests : cc[q].storage_key = docs[i].storage_key => q = r

\* both uploads are recorded with different outcomes, the later request first
C12_Witness ==
  /\ Len(docs) = 2
  /\ docs[1].storage_key = 2 /\ docs[2].storage_key = 1
  /\ docs[1].ai_workflow # docs[2].ai_workflow
  /\ docs[1].processing_results # docs[2].processing_results
  /\ \A r \in Requests : cc[r].ext_tools # <<>> /\ cc[r].http = 200

\* the records inserted for request r
RecordsOf(r) == {i \in 1..Len(docs) : docs[i].storage_key = cc[r].storage_key}

\* C13: a record is inserted only after the storage upload of the same
\* request succeeded and the pipeline returned; a request whose storage
\* upload or any later step raised ends with 500 and has no record; every
\* record carries the key and the URL of the object stored by the request
\* that inserted it.
C13_RecordOnlyAfterStoreAndPipeline ==
  /\ \A i \in 1..Len(docs) :
       /\ docs[i].storage_key \in bucket
       /\ docs[i].storage_url = UrlOf(docs[i].storage_key)
       /\ \A j \in 1..Len(docs) : docs[j].storage_key = docs[i].storage_key => j = i
       /\ \E r \in Requests : i \in RecordsOf(r)
  /\ \A r \in Requests :
       /\ RecordsOf(r) # {} =>
            /\ cc[r].storage_url = Some(UrlOf(cc[r].storage_key))
            /\ cc[r].outcome # None /\ ~cc[r].outcome[1].raised
            /\ cc[r].document # None
            /\ \A i \in RecordsOf(r) : docs[i] = cc[r].document[1]
            /\ cc[r].http = 200
       /\ cc[r].pc = "responded" =>
            \/ cc[r].http = 200 /\ RecordsOf(r) # {}
            \/ cc[r].http = 500 /\ RecordsOf(r) = {}
       /\ (cc[r].pc = "responded" /\ cc[r].storage_key \notin bucket) => cc[r].http = 500

\* one upload is recorded; the storage upload of the other raised
C13_Witness ==
  \E r, q \in Requests :
    /\ cc[r].pc = "responded" /\ cc[r].http = 200 /\ RecordsOf(r) # {}
    /\ cc[q].pc = "responded" /\ cc[q].http = 500
    /\ cc[q].storage_url = None /\ cc[q].storage_key \notin bucket
    /\ Len(docs) = 1

----------------------------------------------------------------------------
(* Claims about get_document (SpecGet) *)

\* the lookup itself failed
LookupFailed == lookup.exc = "PyMongoError"

\* C14: get_document tells its two errors apart: a well-formed id with no
\* matching record is answered 404 "Document not found"; 400 "Invalid
\* document ID" is answered only for a malformed id or a failed lookup; a
\* matching record is answered with success.
C14_NotFoundIsNot400 ==
  lookup.pc = "answered" =>
    /\ (lookup.document_id.well_formed /\ ~LookupFailed /\ lookup.found = None) =>
         (lookup.http = 404 /\ lookup.detail = "Document not found")
    /\ lookup.http = 400 => (~lookup.document_id.well_formed \/ LookupFailed)
    /\ lookup.found # None => lookup.http = 200

\* the parts of C14 that do not depend on how a missing or a found record is
\* answered: a malformed id and a failed lookup are answered 400
C14_BadRequests ==
  (lookup.pc = "answered" /\ (~lookup.document_id.well_formed \/ LookupFailed)) =>
    (lookup.http = 400 /\ lookup.detail = "Invalid document ID")

----------------------------------------------------------------------------
(* Claims about the extractor tools (SpecTools) *)

\* the text tool has run and had a raw text to post-process
TextToolDone ==
  /\ tl_pc = "done"
  /\ tl_tool = "text_parsing_tool"
  /\ tl_env.fetch_ok
  /\ tl_ct \in ParsedTypes => tl_env.parse_ok

TrimmedRaw == Strip(RawText(tl_ct, tl_env))

ModelCallUnusable ==
  /\ tl_pc = "done"
  /\ tl_out.prompts # <<>>
  /\ \/ tl_env.summ.kind \in {"raise", "none"}
     \/ CleanReply(tl_env.summ.text) = <<>>

\* C8: when the generative-model call made by an extractor fails or returns
\* unusable (empty) output, the result is an explicit failure: success=false
\* with error populated, never success=true with empty or raw content.
C8_ModelFailureIsExplicit ==
  ModelCallUnusable =>
    /\ tl_out.result.success = FALSE
    /\ "error" \in DOMAIN tl_out.result
    /\ tl_out.result.error # ""

====
